---------------------------- MODULE Spec2Model ----------------------------
(***************************************************************************)
(* LED-Tunnel (src/LEDTunnel.ino, final sketch, lines 382-800).            *)
(*                                                                         *)
(* Three LED sequences (S_RingChase, S_Twinkle, S_TraceChase) share one    *)
(* colour buffer `leds`; setup() and loop() form the scheduler that        *)
(* rotates between them on a countdown.  One TLA+ action models one whole  *)
(* call of setup() or loop(); `calls` is the ordered log of what that call *)
(* invoked.                                                                *)
(***************************************************************************)
EXTENDS Integers, Sequences, FiniteSets, TLC

\* ------------------------------ CONFIG ------------------------------- \*

NUM_STRIPS == 8
NUM_STRIP_LEDS == 150
ZIG_ZAG == 1
SEQUENCE_DURATION == 300
WRAPUP_WARNING_OFFSET == 20

S_RING_CHASE_NUM_PULSE_COLORS == 3
S_RING_CHASE_PULSE_FREQUENCY == 45
S_RING_CHASE_FALLOF_RATE == 8
S_RING_CHASE_RING_SHIFT_FREQUENCY == 2

S_TWINKLE_NUM_COLORS == 1
S_TWINKLE_FREQUENCY == 2
S_TWINKLE_FALLOFF_RATE == 10
S_TWINKLE_BRIGHTNESS_VARIANCE == 100

S_TRACE_CHASE_NUM_COLORS == 3
S_TRACE_FALLOFF_RATE == 25
S_TRACE_SPEED == 3
S_TRACE_OFFSET == 15

NUM_SEQUENCES == 3

\* value stored by S_RingChase::WrapUp into pulseTimer
WRAPUP_PULSE_TIMER == 9999

NUM_LEDS == NUM_STRIP_LEDS * NUM_STRIPS

\* ------------------------------ bounds ------------------------------- \*

\* `tick` counts loop() calls from startup and stops counting here
MaxTick == 310

\* number of S_Twinkle::Update calls made on the cleared buffer
MaxTwinkleUpdates == 7

\* --------------------------- colour values --------------------------- \*

CHSV(h, s, v) == [h |-> h, s |-> s, v |-> v]

S_RING_CHASE_COLORS == <<CHSV(190, 255, 255), CHSV(30, 255, 255), CHSV(96, 255, 255)>>
S_TWINKLE_COLORS == <<CHSV(190, 255, 255)>>
S_TRACE_CHASE_COLORS == <<CHSV(190, 255, 255), CHSV(30, 255, 255), CHSV(96, 255, 255)>>

\* The constructor of S_RingChase reads S_RING_CHASE_COLORS[3], one past the
\* end of the palette: the value read is whatever the build placed there.
OutOfBoundsCHSV == {CHSV(0, 0, 0), CHSV(190, 255, 255), CHSV(77, 255, 100)}

\* C arrays are indexed from 0, TLA+ sequences from 1
PaletteAt(palette, i) == palette[i + 1]

\* FastLED lib8tion: scale8 (FASTLED_SCALE8_FIXED) and scale8_video
scale8(i, scale) == (i * (1 + scale)) \div 256
scale8_video(i, scale) ==
    ((i * scale) \div 256) + (IF i # 0 /\ scale # 0 THEN 1 ELSE 0)

Black == <<0, 0, 0>>

\* FastLED hsv2rgb_rainbow, used by CRGB::operator=(const CHSV&)
HueSection(hsv) ==
    LET hue == hsv.h
        offset8 == (hue % 32) * 8
        third == scale8(offset8, 85)
        twothirds == scale8(offset8, 170)
        section == hue \div 32
    IN  CASE section = 0 -> <<255 - third, third, 0>>
          [] section = 1 -> <<171, 85 + third, 0>>
          [] section = 2 -> <<171 - twothirds, 170 + third, 0>>
          [] section = 3 -> <<0, 255 - third, third>>
          [] section = 4 -> <<0, 171 - twothirds, 85 + twothirds>>
          [] section = 5 -> <<third, 0, 255 - third>>
          [] section = 6 -> <<85 + third, 0, 171 - third>>
          [] OTHER -> <<170 + third, 0, 85 - third>>

Desaturate(rgb, sat) ==
    IF sat = 255 THEN rgb
    ELSE IF sat = 0 THEN <<255, 255, 255>>
    ELSE LET desat == scale8_video(255 - sat, 255 - sat)
             satscale == 255 - desat
             ch(c) == (IF c # 0 THEN scale8(c, satscale) ELSE 0) + desat
         IN  <<ch(rgb[1]), ch(rgb[2]), ch(rgb[3])>>

Dim(rgb, val) ==
    IF val = 255 THEN rgb
    ELSE LET v2 == scale8_video(val, val)
             ch(c) == IF c # 0 THEN scale8(c, v2) ELSE 0
         IN  IF v2 = 0 THEN Black ELSE <<ch(rgb[1]), ch(rgb[2]), ch(rgb[3])>>

hsv2rgb_rainbow(hsv) == Dim(Desaturate(HueSection(hsv), hsv.s), hsv.v)

\* variant of nscale8: linear subtraction of 255 - scale, floor 0
nscale8Linear(rgb, scale) ==
    LET ch(c) == IF c - (255 - scale) < 0 THEN 0 ELSE c - (255 - scale)
    IN  <<ch(rgb[1]), ch(rgb[2]), ch(rgb[3])>>

\* CRGB::nscale8
nscale8(rgb, scale) ==
    <<scale8(rgb[1], scale), scale8(rgb[2], scale), scale8(rgb[3], scale)>>

\* Arduino random(min, max): min inclusive, max exclusive
random(min, max) == min .. (max - 1)

GetStrip(stripIndex) == stripIndex * NUM_STRIP_LEDS

Strips == 0 .. (NUM_STRIPS - 1)
Leds == 0 .. (NUM_LEDS - 1)


Max(S) == CHOOSE x \in S : \A y \in S : y <= x
Min(S) == CHOOSE x \in S : \A y \in S : x <= y

\* --------------------------- S_RingChase ----------------------------- \*

\* S_RingChase::S_RingChase with the member initialisers; g is the value the
\* out-of-bounds palette read produced
S_RingChase_new(g) ==
    [rings |-> [i \in Strips |-> g],
     pulseTimer |-> 0,
     pulseRingShiftTimer |-> 0,
     pulseRingIndex |-> 0,
     pulseColorIndex |-> S_RING_CHASE_NUM_PULSE_COLORS]

S_RingChase_Init(self) ==
    [self EXCEPT !.pulseTimer = 0,
                 !.pulseRingShiftTimer = 0,
                 !.pulseRingIndex = 0,
                 !.pulseColorIndex = S_RING_CHASE_NUM_PULSE_COLORS]

\* variants of S_RingChase::WrapUp: it also stops the pulse in progress; it
\* makes the next Update pulse
S_RingChase_WrapUpStopsShift(self) ==
    [self EXCEPT !.pulseTimer = WRAPUP_PULSE_TIMER, !.pulseRingIndex = NUM_STRIPS]
S_RingChase_WrapUpPulseNow(self) == [self EXCEPT !.pulseTimer = 0]

S_RingChase_WrapUp(self) == [self EXCEPT !.pulseTimer = WRAPUP_PULSE_TIMER]

\* is it time to start another pulse chain?
PulseDue(self) == self.pulseTimer <= 0

\* variant of NextPulseColor: wraps one palette entry early
NextPulseColorShort(c) ==
    IF c + 1 >= S_RING_CHASE_NUM_PULSE_COLORS - 1 THEN 0 ELSE c + 1

NextPulseColor(c) ==
    IF c + 1 >= S_RING_CHASE_NUM_PULSE_COLORS THEN 0 ELSE c + 1

StartPulse(self) ==
    LET c == NextPulseColor(self.pulseColorIndex)
    IN  [self EXCEPT !.pulseTimer = S_RING_CHASE_PULSE_FREQUENCY,
                     !.pulseRingIndex = 1,
                     !.pulseRingShiftTimer = S_RING_CHASE_RING_SHIFT_FREQUENCY,
                     !.pulseColorIndex = c,
                     !.rings[0] = PaletteAt(S_RING_CHASE_COLORS, c)]

\* variant of ShiftDue: the shift waits one Update too long
ShiftDueLate(self) ==
    self.pulseRingShiftTimer < 0 /\ self.pulseRingIndex < NUM_STRIPS

\* are we actively pulsing down the tunnel?
ShiftDue(self) ==
    self.pulseRingShiftTimer <= 0 /\ self.pulseRingIndex < NUM_STRIPS

ShiftPulse(self) ==
    [self EXCEPT !.rings[self.pulseRingIndex] =
                     PaletteAt(S_RING_CHASE_COLORS, self.pulseColorIndex),
                 !.pulseRingShiftTimer = S_RING_CHASE_RING_SHIFT_FREQUENCY,
                 !.pulseRingIndex = @ + 1]

\* variant of RingFalloff: the subtraction wraps around in the 8-bit field
RingFalloffWrap(c) == CHSV(c.h, c.s, (c.v - S_RING_CHASE_FALLOF_RATE) % 256)

\* apply constant falloff on entire strip
RingFalloff(c) ==
    CHSV(c.h, c.s,
         IF c.v - S_RING_CHASE_FALLOF_RATE < 0 THEN 0
         ELSE c.v - S_RING_CHASE_FALLOF_RATE)

\* variant of RingFrame: the inner loop stops one led short of the strip
RingFrameShort(rings, buf) ==
    LET rgb == [i \in Strips |-> hsv2rgb_rainbow(rings[i])]
    IN  [k \in Leds |->
            LET i == k \div NUM_STRIP_LEDS
                j == k % NUM_STRIP_LEDS
            IN  IF GetStrip(i) + j = k /\ j < NUM_STRIP_LEDS - 1 THEN rgb[i]
                ELSE buf[k]]

\* set actual leds to ring states: for i, for j: leds[GetStrip(i) + j] = rings[i]
RingFrame(rings, buf) ==
    LET rgb == [i \in Strips |-> hsv2rgb_rainbow(rings[i])]
    IN  [k \in Leds |->
            LET i == k \div NUM_STRIP_LEDS
                j == k % NUM_STRIP_LEDS
            IN  IF GetStrip(i) + j = k THEN rgb[i] ELSE buf[k]]

\* S_RingChase::Update.  ringWrites lists, in program order, the rings that
\* were assigned a palette colour by this call.
S_RingChase_Update(self, buf) ==
    LET a == IF PulseDue(self) THEN StartPulse(self) ELSE self
        b == [a EXCEPT !.pulseTimer = @ - 1]
        c == IF ShiftDue(b) THEN ShiftPulse(b) ELSE b
        d == [c EXCEPT !.pulseRingShiftTimer = @ - 1]
        e == [d EXCEPT !.rings = [i \in Strips |-> RingFalloff(d.rings[i])]]
    IN  [self |-> e,
         leds |-> RingFrame(e.rings, buf),
         pulsed |-> PulseDue(self),
         ringWrites |-> (IF PulseDue(self) THEN <<0>> ELSE <<>>)
                        \o (IF ShiftDue(b) THEN <<b.pulseRingIndex>> ELSE <<>>)]

\* ---------------------------- S_Twinkle ------------------------------ \*

S_Twinkle_new == [twinkleTimer |-> 0]

S_Twinkle_Init(self) == self

S_Twinkle_WrapUp(self) == self

\* variant of TwinkleDue: the timer has to fall below zero
TwinkleDueLate(self) == self.twinkleTimer < 0

\* is it time to twinkle?
TwinkleDue(self) == self.twinkleTimer <= 0

\* variants of the ranges: positions from 0; brightness around 255
TwinklePosRangeFromZero == random(0, NUM_STRIPS * NUM_STRIP_LEDS - 2)
TwinkleBrightnessRangeAround ==
    random(255 - S_TWINKLE_BRIGHTNESS_VARIANCE, 255 + S_TWINKLE_BRIGHTNESS_VARIANCE)

\* the ranges of the three random() calls of S_Twinkle::Update
TwinklePosRange == random(1, NUM_STRIPS * NUM_STRIP_LEDS - 2)
TwinkleBrightnessRange == random(255 - S_TWINKLE_BRIGHTNESS_VARIANCE, 255)
TwinkleColorRange == random(0, S_TWINKLE_NUM_COLORS)

\* S_Twinkle::Update; rnd holds the values the random() calls returned
S_Twinkle_Update(self, buf, rnd) ==
    LET due == TwinkleDue(self)
        color == PaletteAt(S_TWINKLE_COLORS, rnd.color)
        lit == IF due
               THEN [buf EXCEPT ![rnd.pos] =
                        hsv2rgb_rainbow(CHSV(color.h, color.s, rnd.brightness))]
               ELSE buf
        t == IF due THEN S_TWINKLE_FREQUENCY ELSE self.twinkleTimer
    IN  [self |-> [self EXCEPT !.twinkleTimer = t - 1],
         leds |-> [k \in Leds |-> nscale8(lit[k], 255 - S_TWINKLE_FALLOFF_RATE)],
         writes |-> IF due THEN <<rnd.pos>> ELSE <<>>]

\* --------------------------- S_TraceChase ---------------------------- \*

\* new S_TraceChase(): no user constructor, the object is value-initialised
S_TraceChase_new == [traces |-> [i \in Strips |-> 0], traceColorIndex |-> 0]

TraceStart(i) ==
    IF i = 0 THEN 0
    ELSE IF ZIG_ZAG = 1 /\ i % 2 = 1 THEN NUM_STRIP_LEDS - i * S_TRACE_OFFSET
    ELSE i * S_TRACE_OFFSET

S_TraceChase_Init(self) == [self EXCEPT !.traces = [i \in Strips |-> TraceStart(i)]]

S_TraceChase_WrapUp(self) == self

\* odd strips should iterate backwards
Backwards(i) == ZIG_ZAG = 1 /\ i % 2 = 1

\* variants of TraceAdvance: the wrap-around tests are off by one; every
\* strip iterates forwards
TraceAdvanceLateWrap(i, p) ==
    IF ZIG_ZAG = 1 /\ i % 2 = 1
    THEN (IF p - 1 < -1 THEN NUM_STRIP_LEDS - 1 ELSE p - 1)
    ELSE (IF p + 1 > NUM_STRIP_LEDS THEN 0 ELSE p + 1)
TraceAdvanceForward(i, p) == IF p + 1 > NUM_STRIP_LEDS - 1 THEN 0 ELSE p + 1

\* one pass of the inner loop body: move the trace of strip i by one led
TraceAdvance(i, p) ==
    IF Backwards(i)
    THEN (IF p - 1 < 0 THEN NUM_STRIP_LEDS - 1 ELSE p - 1)
    ELSE (IF p + 1 > NUM_STRIP_LEDS - 1 THEN 0 ELSE p + 1)

\* variant of NextTraceColor: the palette index never leaves 0
NextTraceColorZero(c) == 0

NextTraceColor(c) == IF c + 1 > S_TRACE_CHASE_NUM_COLORS - 1 THEN 0 ELSE c + 1

\* variant of TraceLoop: only the position reached last is painted
RECURSIVE TraceLoopLastOnly(_, _, _)
TraceLoopLastOnly(st, i, j) ==
    IF i >= NUM_STRIPS THEN st
    ELSE IF j >= S_TRACE_SPEED
    THEN TraceLoopLastOnly([st EXCEPT !.traceColorIndex = NextTraceColor(@)],
                           i + 1, 0)
    ELSE LET p == TraceAdvance(i, st.traces[i])
         IN  TraceLoopLastOnly(
                 [st EXCEPT !.traces[i] = p,
                            !.writes = IF j = S_TRACE_SPEED - 1
                                       THEN Append(@, <<GetStrip(i) + p,
                                                        st.traceColorIndex>>)
                                       ELSE @],
                 i, j + 1)

\* The two nested loops of S_TraceChase::Update, from strip i, pass j on.
\* st = [traces, traceColorIndex, writes]; writes is the ordered list of
\* <<buffer index, palette index>> assignments.
RECURSIVE TraceLoop(_, _, _)
TraceLoop(st, i, j) ==
    IF i >= NUM_STRIPS THEN st
    ELSE IF j >= S_TRACE_SPEED
    THEN TraceLoop([st EXCEPT !.traceColorIndex = NextTraceColor(@)], i + 1, 0)
    ELSE LET p == TraceAdvance(i, st.traces[i])
         IN  TraceLoop([st EXCEPT !.traces[i] = p,
                                  !.writes = Append(@, <<GetStrip(i) + p,
                                                         st.traceColorIndex>>)],
                       i, j + 1)

RECURSIVE ApplyWrites(_, _, _)
ApplyWrites(buf, writes, n) ==
    IF n > Len(writes) THEN buf
    ELSE ApplyWrites(
            IF writes[n][1] \in Leds
            THEN [buf EXCEPT ![writes[n][1]] =
                     hsv2rgb_rainbow(PaletteAt(S_TRACE_CHASE_COLORS, writes[n][2]))]
            ELSE buf,
            writes, n + 1)

S_TraceChase_Update(self, buf) ==
    LET st == TraceLoop([traces |-> self.traces,
                         traceColorIndex |-> self.traceColorIndex,
                         writes |-> <<>>], 0, 0)
        painted == ApplyWrites(buf, st.writes, 1)
    IN  [self |-> [traces |-> st.traces, traceColorIndex |-> 0],
         leds |-> [k \in Leds |-> nscale8(painted[k], 255 - S_TRACE_FALLOFF_RATE)],
         writes |-> st.writes]


\* ----------------------------- scheduler ----------------------------- \*

VARIABLES
    leds,           \* CRGB leds[NUM_STRIP_LEDS * NUM_STRIPS]
    shown,          \* the frame last transmitted by FastLED.show()
    ring,           \* Sequences[0], the S_RingChase instance
    twinkle,        \* Sequences[1], the S_Twinkle instance
    trace,          \* Sequences[2], the S_TraceChase instance
    sequenceTimer,
    ledSequence,
    pc,             \* "setup" before setup() has run, "loop" afterwards
    calls,          \* what the last setup()/loop() call did, in order
    tick,           \* loop() calls since startup (counted up to MaxTick)
    cyc,            \* bookkeeping of the current cycle
    prev,           \* bookkeeping of the cycle the last rotation ended
    pulseAge,       \* RingChase Updates since its last pulse start (-1: none since Init)
    ringWrites,     \* rings assigned a palette colour by the last Update
    painted         \* leds assigned a colour by the last Twinkle/TraceChase Update

vars == <<leds, shown, ring, twinkle, trace, sequenceTimer, ledSequence, pc,
          calls, tick, cyc, prev, pulseAge, ringWrites, painted>>

Call(op, arg) == [op |-> op, arg |-> arg]

\* The objects a call works on, threaded through the statements of a handler
Machine == [ring |-> ring, twinkle |-> twinkle, trace |-> trace, leds |-> leds,
            shown |-> shown, calls |-> <<>>, pulsed |-> FALSE, ringWrites |-> <<>>,
            painted |-> <<>>]

\* one assignment leds[at] = CHSV(palette[color].h, palette[color].s, v)
Paint(at, color, v) == [at |-> at, color |-> color, v |-> v]

Log(m, op, arg) == [m EXCEPT !.calls = Append(@, Call(op, arg))]

\* Sequences[i]->Init()
CallInit(m, i) ==
    Log(CASE i = 0 -> [m EXCEPT !.ring = S_RingChase_Init(@)]
          [] i = 1 -> [m EXCEPT !.twinkle = S_Twinkle_Init(@)]
          [] i = 2 -> [m EXCEPT !.trace = S_TraceChase_Init(@)],
        "Init", i)

\* Sequences[i]->WrapUp()
CallWrapUp(m, i) ==
    Log(CASE i = 0 -> [m EXCEPT !.ring = S_RingChase_WrapUp(@)]
          [] i = 1 -> [m EXCEPT !.twinkle = S_Twinkle_WrapUp(@)]
          [] i = 2 -> [m EXCEPT !.trace = S_TraceChase_WrapUp(@)],
        "WrapUp", i)

\* Sequences[i]->Update()
CallUpdate(m, i, rnd) ==
    Log(CASE i = 0 ->
               LET r == S_RingChase_Update(m.ring, m.leds)
               IN  [m EXCEPT !.ring = r.self, !.leds = r.leds,
                             !.pulsed = r.pulsed, !.ringWrites = r.ringWrites]
          [] i = 1 ->
               LET r == S_Twinkle_Update(m.twinkle, m.leds, rnd)
               IN  [m EXCEPT !.twinkle = r.self, !.leds = r.leds,
                             !.painted =
                                 [n \in 1..Len(r.writes) |->
                                     Paint(r.writes[n], rnd.color, rnd.brightness)]]
          [] i = 2 ->
               LET r == S_TraceChase_Update(m.trace, m.leds)
               IN  [m EXCEPT !.trace = r.self, !.leds = r.leds,
                             !.painted =
                                 [n \in 1..Len(r.writes) |->
                                     Paint(r.writes[n][1], r.writes[n][2],
                                           PaletteAt(S_TRACE_CHASE_COLORS,
                                                     r.writes[n][2]).v)]],
        "Update", i)

\* FastLED.clear() and FastLED.show()
Clear(m) == Log([m EXCEPT !.leds = [k \in Leds |-> Black]], "clear", -1)
Show(m) == Log([m EXCEPT !.shown = m.leds], "show", -1)

\* The values the random() calls of one S_Twinkle::Update return here: the
\* last position of its range with either end of the brightness range.
TwinkleDraws ==
    [pos : {Max(TwinklePosRange)},
     brightness : {Min(TwinkleBrightnessRange), Max(TwinkleBrightnessRange)},
     color : TwinkleColorRange]

NoDraw == [pos |-> 1, brightness |-> 255, color |-> 0]

\* random() is called only by an S_Twinkle::Update whose timer has run out
Draws(i, tw, draws) == IF i = 1 /\ TwinkleDue(tw) THEN draws ELSE {NoDraw}

\* sinceStart: loop() calls since the cycle began (startup or rotation = 0);
\* wrapUps, updates: WrapUp and Update calls in the cycle; wrapAt, lastUpdate:
\* the sinceStart of the call that made the latest of them
NoCycle == [sinceStart |-> -1, wrapUps |-> -1, wrapAt |-> -1, updates |-> -1,
            lastUpdate |-> -1]

Init ==
    /\ leds = [k \in Leds |-> Black]
    /\ shown = [k \in Leds |-> Black]
    /\ \E g \in OutOfBoundsCHSV : ring = S_RingChase_new(g)
    /\ twinkle = S_Twinkle_new
    /\ trace = S_TraceChase_new
    /\ sequenceTimer = SEQUENCE_DURATION
    /\ ledSequence = 0
    /\ pc = "setup"
    /\ calls = <<>>
    /\ tick = 0
    /\ cyc = NoCycle
    /\ prev = NoCycle
    /\ pulseAge = -1
    /\ ringWrites = <<>>
    /\ painted = <<>>

Count(log, op) == Cardinality({n \in 1..Len(log) : log[n].op = op})

Setup ==
    /\ pc = "setup"
    /\ \E m \in {CallInit(Show(Clear(Machine)), ledSequence)} :
           /\ leds' = m.leds
           /\ shown' = m.shown
           /\ ring' = m.ring
           /\ twinkle' = m.twinkle
           /\ trace' = m.trace
           /\ calls' = m.calls
    /\ pc' = "loop"
    /\ cyc' = [sinceStart |-> 0, wrapUps |-> 0, wrapAt |-> -1, updates |-> 0,
               lastUpdate |-> -1]
    /\ UNCHANGED <<sequenceTimer, ledSequence, tick, prev, pulseAge, ringWrites,
                   painted>>

\* variants of WrapUpDue: on every tick from the offset on; one tick late
WrapUpDueOrLater(t) == t <= WRAPUP_WARNING_OFFSET
WrapUpDueLate(t) == t = WRAPUP_WARNING_OFFSET - 1

WrapUpDue(t) == t = WRAPUP_WARNING_OFFSET

\* variant of RotationDue: rotates when the countdown reaches zero
RotationDueAtZero(t) == t <= 0

RotationDue(t) == t < 0

\* variants of NextSequence: advances by two entries; wraps one entry early
NextSequenceByTwo(i) == IF i + 2 > NUM_SEQUENCES - 1 THEN 0 ELSE i + 2

NextSequenceSkipLast(i) == IF i + 1 >= NUM_SEQUENCES - 1 THEN 0 ELSE i + 1

NextSequence(i) == IF i + 1 > NUM_SEQUENCES - 1 THEN 0 ELSE i + 1

\* variants of Schedule: the rotation leaves the countdown as it is; the
\* countdown restarts one tick short
ScheduleNoReset(m, t, i) ==
    LET m1 == IF t = WRAPUP_WARNING_OFFSET THEN CallWrapUp(m, i) ELSE m
        n == IF i + 1 > NUM_SEQUENCES - 1 THEN 0 ELSE i + 1
    IN  IF t < 0
        THEN [m |-> CallInit(m1, n), i |-> n, t |-> t]
        ELSE [m |-> m1, i |-> i, t |-> t]
ScheduleShortReset(m, t, i) ==
    LET m1 == IF t = WRAPUP_WARNING_OFFSET THEN CallWrapUp(m, i) ELSE m
        n == IF i + 1 > NUM_SEQUENCES - 1 THEN 0 ELSE i + 1
    IN  IF t < 0
        THEN [m |-> CallInit(m1, n), i |-> n, t |-> SEQUENCE_DURATION - 1]
        ELSE [m |-> m1, i |-> i, t |-> t]

\* the statements of loop() up to and including the rotation; t is the
\* countdown after the decrement
Schedule(m, t, i) ==
    LET m1 == IF WrapUpDue(t) THEN CallWrapUp(m, i) ELSE m
    IN  IF RotationDue(t)
        THEN [m |-> CallInit(m1, NextSequence(i)), i |-> NextSequence(i),
              t |-> SEQUENCE_DURATION]
        ELSE [m |-> m1, i |-> i, t |-> t]

\* variants of Render: the flush precedes the Update; the following
\* sequence is updated as well
RenderShowFirst(m, i, rnd) == CallUpdate(Show(m), i, rnd)
RenderTwo(m, i, rnd) ==
    Show(CallUpdate(CallUpdate(m, IF i + 1 > NUM_SEQUENCES - 1 THEN 0 ELSE i + 1,
                               rnd), i, rnd))

\* Sequences[ledSequence]->Update(); FastLED.show();
Render(m, i, rnd) == Show(CallUpdate(m, i, rnd))

\* The bookkeeping after a loop() call that made the calls `log`: WrapUp
\* precedes the rotation, so it counts for the cycle the call started in; a
\* call that rotated starts the next cycle at 0 with its own Update.
CycleEnded(c, log) ==
    LET nW == Count(log, "WrapUp")
    IN  [c EXCEPT !.wrapUps = @ + nW,
                  !.wrapAt = IF nW > 0 THEN c.sinceStart + 1 ELSE @]

CycleAfter(c, log, rotated) ==
    LET nU == Count(log, "Update")
        e == CycleEnded(c, log)
    IN  IF rotated
        THEN [sinceStart |-> 0, wrapUps |-> 0, wrapAt |-> -1, updates |-> nU,
              lastUpdate |-> IF nU > 0 THEN 0 ELSE -1]
        ELSE [e EXCEPT !.sinceStart = @ + 1,
                       !.updates = @ + nU,
                       !.lastUpdate = IF nU > 0 THEN c.sinceStart + 1 ELSE @]

PulseAgeAfter(age, m, i) ==
    LET a == IF i = 0 /\ Count(m.calls, "Init") > 0 THEN -1 ELSE age
    IN  IF i # 0 THEN a
        ELSE IF m.pulsed THEN 0
        ELSE IF a >= 0 THEN a + 1 ELSE a

\* one call of loop(), with random() returning values of `draws`
Tick(draws) ==
    /\ pc = "loop"
    /\ \E s \in {Schedule(Log(Machine, "dec", sequenceTimer - 1),
                          sequenceTimer - 1, ledSequence)} :
       \E rnd \in Draws(s.i, s.m.twinkle, draws) :
       \E m \in {Render(s.m, s.i, rnd)} :
           /\ leds' = m.leds
           /\ shown' = m.shown
           /\ ring' = m.ring
           /\ twinkle' = m.twinkle
           /\ trace' = m.trace
           /\ calls' = m.calls
           /\ sequenceTimer' = s.t
           /\ ledSequence' = s.i
           /\ cyc' = CycleAfter(cyc, m.calls, s.i # ledSequence)
           /\ prev' = IF s.i # ledSequence THEN CycleEnded(cyc, m.calls) ELSE prev
           /\ pulseAge' = PulseAgeAfter(pulseAge, m, s.i)
           /\ ringWrites' = m.ringWrites
           /\ painted' = m.painted
    /\ tick' = IF tick < MaxTick THEN tick + 1 ELSE tick
    /\ UNCHANGED pc

Loop == Tick(TwinkleDraws)

Next == Setup \/ Loop

Spec == Init /\ [][Next]_vars

\* The Arduino core calls setup() once and then loop() forever.  The two
\* calls are named by what each of them always changes: setup() leaves
\* "setup", every loop() moves the countdown.  Under [][Next]_vars a step
\* that does so is a Setup or a Loop step, so the conditions below are weak
\* fairness of Setup and of Loop.
SetupCalled == pc = "setup" /\ pc' = "loop"
LoopCalled ==
    /\ pc = "loop"
    /\ sequenceTimer' = IF RotationDue(sequenceTimer - 1) THEN SEQUENCE_DURATION
                        ELSE sequenceTimer - 1

FairSpec ==
    Init /\ [][Next]_vars /\ WF_pc(SetupCalled) /\ WF_sequenceTimer(LoopCalled)

\* ---------------- S_Twinkle alone on a cleared buffer ---------------- \*

\* random() returning either end of the position and brightness ranges
TwinkleWideDraws ==
    [pos : {Min(TwinklePosRange), Max(TwinklePosRange)},
     brightness : {Min(TwinkleBrightnessRange), Max(TwinkleBrightnessRange)},
     color : TwinkleColorRange]

\* the objects as constructed, the buffer zeroed, no scheduler running
TwinkleInit ==
    /\ leds = [k \in Leds |-> Black]
    /\ shown = [k \in Leds |-> Black]
    /\ \E g \in OutOfBoundsCHSV : ring = S_RingChase_new(g)
    /\ twinkle = S_Twinkle_new
    /\ trace = S_TraceChase_new
    /\ sequenceTimer = SEQUENCE_DURATION
    /\ ledSequence = 1
    /\ pc = "twinkle"
    /\ calls = <<>>
    /\ tick = 0
    /\ cyc = NoCycle
    /\ prev = NoCycle
    /\ pulseAge = -1
    /\ ringWrites = <<>>
    /\ painted = <<>>

\* one call of S_Twinkle::Update
TwinkleUpdate ==
    /\ pc = "twinkle"
    /\ tick < MaxTwinkleUpdates
    /\ \E rnd \in Draws(1, twinkle, TwinkleWideDraws) :
       \E m \in {CallUpdate(Machine, 1, rnd)} :
           /\ leds' = m.leds
           /\ twinkle' = m.twinkle
           /\ calls' = m.calls
           /\ painted' = m.painted
    /\ tick' = tick + 1
    /\ UNCHANGED <<shown, ring, trace, sequenceTimer, ledSequence, pc, cyc, prev,
                   pulseAge, ringWrites>>

TwinkleSpec == TwinkleInit /\ [][TwinkleUpdate]_vars

\* ------------------------- reading the call log ---------------------- \*

Ops(log) == [n \in 1..Len(log) |-> log[n].op]
Args(log, op) == {log[n].arg : n \in {k \in 1..Len(log) : log[k].op = op}}
Made(op) == Count(calls, op) > 0
Where(log, op) == Min({n \in 1..Len(log) : log[n].op = op})

\* a state between two loop() calls, at least one of which has run
Ticked == pc = "loop" /\ tick >= 1
\* the countdown right after the decrement of the last loop() call
Decremented == CHOOSE t \in Args(calls, "dec") : TRUE

\* ------------------------------ claims ------------------------------- \*

\* C1: in every cycle (from startup or a rotation tick to the next rotation
\* tick) WrapUp is invoked exactly once, on the active sequence, in the tick
\* that is exactly SEQUENCE_DURATION - WRAPUP_WARNING_OFFSET ticks after the
\* cycle start.
C1_WrapUpOncePerCycle ==
    pc = "loop" =>
        /\ cyc.sinceStart < SEQUENCE_DURATION - WRAPUP_WARNING_OFFSET
              => cyc.wrapUps = 0 /\ cyc.wrapAt = -1
        /\ cyc.sinceStart >= SEQUENCE_DURATION - WRAPUP_WARNING_OFFSET
              => /\ cyc.wrapUps = 1
                 /\ cyc.wrapAt = SEQUENCE_DURATION - WRAPUP_WARNING_OFFSET
        /\ Made("WrapUp")
              => /\ Count(calls, "WrapUp") = 1
                 /\ Args(calls, "WrapUp") = {ledSequence}
                 /\ ~Made("Init")
                 /\ cyc.sinceStart = SEQUENCE_DURATION - WRAPUP_WARNING_OFFSET
        /\ prev # NoCycle
              => /\ prev.wrapUps = 1
                 /\ prev.wrapAt = SEQUENCE_DURATION - WRAPUP_WARNING_OFFSET

C1_Witness ==
    /\ Ticked
    /\ Made("WrapUp")
    /\ ledSequence = 1
    /\ prev # NoCycle

\* C2: Init is invoked once by setup() on sequence 0, before the first
\* Update; afterwards exactly in the ticks whose countdown fell below zero,
\* once, on the newly selected sequence and before its first Update.
C2_InitOncePerCycle ==
    /\ pc = "loop" /\ tick = 0
          => /\ Count(calls, "Init") = 1
             /\ Args(calls, "Init") = {0}
             /\ ~Made("Update")
             /\ ledSequence = 0
    /\ Ticked
          => /\ Made("Init") <=> Decremented < 0
             /\ Made("Init")
                   => /\ Count(calls, "Init") = 1
                      /\ Args(calls, "Init") = {ledSequence}
                      /\ Args(calls, "Update") = {ledSequence}
                      /\ Where(calls, "Init") < Where(calls, "Update")
                      /\ cyc.sinceStart = 0
                      /\ cyc.updates = 1
             /\ ~Made("Init") => cyc.sinceStart > 0
    /\ Ticked /\ tick = 1 => ~Made("Init") /\ Args(calls, "Update") = {0}

C2_Witness ==
    /\ Ticked
    /\ Made("Init")
    /\ ledSequence = 2
    /\ cyc.updates = 1

\* C3: when the countdown falls below zero the index becomes (index+1) mod
\* NUM_SEQUENCES and the countdown is reset to SEQUENCE_DURATION, in that
\* tick; the index changes in no other tick.
C3_Rotation ==
    [][pc = "loop" =>
          /\ ledSequence \in 0 .. (NUM_SEQUENCES - 1)
          /\ IF sequenceTimer - 1 < 0
             THEN /\ ledSequence' = (ledSequence + 1) % NUM_SEQUENCES
                  /\ sequenceTimer' = SEQUENCE_DURATION
             ELSE /\ ledSequence' = ledSequence
                  /\ sequenceTimer' = sequenceTimer - 1]_vars

\* the rotation from the last registered sequence back to the first
C3_Witness ==
    /\ Ticked
    /\ Made("Init")
    /\ ledSequence = 0
    /\ sequenceTimer = SEQUENCE_DURATION
    /\ prev.updates > 0

\* C4: counting loop() calls from startup, WrapUp of RingChase is invoked in
\* tick 280 and in no earlier tick; in tick 301 the index becomes 1, Init of
\* Twinkle is invoked and the countdown is reset to 300; no rotation happens
\* before tick 301.
C4_EndToEnd ==
    pc = "loop" =>
        /\ tick < 280 => ~Made("WrapUp") /\ cyc.wrapUps = 0
        /\ tick = 280 => Args(calls, "WrapUp") = {0} /\ Count(calls, "WrapUp") = 1
        /\ tick <= 300 => ledSequence = 0 /\ (tick >= 1 => ~Made("Init"))
        /\ tick = 301 => /\ ledSequence = 1
                         /\ Args(calls, "Init") = {1}
                         /\ sequenceTimer = 300

C4_Witness == pc = "loop" /\ tick = 301 /\ ledSequence = 1

\* C5: every active window holds exactly SEQUENCE_DURATION Update calls
\* between the Init of its sequence and the Init of the next one.
C5_WindowLength == prev # NoCycle => prev.updates = SEQUENCE_DURATION

\* C6: in every cycle WrapUp is invoked exactly WRAPUP_WARNING_OFFSET ticks
\* before the last tick in which that sequence is updated, and before the
\* rotation away from it.
C6_WrapUpLead ==
    /\ Ticked /\ Made("WrapUp")
          => /\ sequenceTimer = WRAPUP_WARNING_OFFSET
             /\ Args(calls, "Update") = Args(calls, "WrapUp")
    /\ prev # NoCycle
          => /\ prev.wrapAt >= 0
             /\ prev.lastUpdate - prev.wrapAt = WRAPUP_WARNING_OFFSET
             /\ prev.wrapAt <= prev.sinceStart

C6_Witness ==
    /\ prev # NoCycle
    /\ prev.wrapUps = 1
    /\ ledSequence = 2
    /\ Made("Init")

\* C7: in every tick exactly one Update is invoked, that of the sequence at
\* the current index (the new one in a rotation tick); Init and WrapUp are
\* invoked on the active sequence only, and a sequence that is not active in
\* a tick is left untouched by it.
C7_OneWriter ==
    /\ [](Ticked => /\ Count(calls, "Update") = 1
                    /\ Args(calls, "Update") = {ledSequence}
                    /\ Args(calls, "Init") \subseteq {ledSequence}
                    /\ Args(calls, "WrapUp") \subseteq {ledSequence})
    /\ [][pc = "loop" =>
             /\ Args(calls', "WrapUp") \subseteq {ledSequence}
             /\ 0 \notin {ledSequence, ledSequence'} => ring' = ring
             /\ 1 \notin {ledSequence, ledSequence'} => twinkle' = twinkle
             /\ 2 \notin {ledSequence, ledSequence'} => trace' = trace]_vars

\* a rotation tick: the incoming sequence is initialised and updated
C7_Witness ==
    /\ Ticked
    /\ Made("Init")
    /\ ledSequence = 1
    /\ Count(calls, "Update") = 1

\* C8: within every tick the order is: countdown decrement, WrapUp if due,
\* rotation with Init if due, Update of the active sequence, one flush; the
\* frame flushed is the one Update left, and the buffer is never flushed
\* between an Init and the following Update.
C8_TickOrder ==
    /\ pc = "loop" /\ tick = 0 => Ops(calls) = <<"clear", "show", "Init">>
    /\ Ticked
          => /\ Ops(calls) =
                    <<"dec">>
                    \o (IF Decremented = WRAPUP_WARNING_OFFSET
                        THEN <<"WrapUp">> ELSE <<>>)
                    \o (IF Decremented < 0 THEN <<"Init">> ELSE <<>>)
                    \o <<"Update", "show">>
             /\ Count(calls, "show") = 1
             /\ shown = leds

C8_Witness ==
    /\ Ticked
    /\ Ops(calls) = <<"dec", "Init", "Update", "show">>
    /\ ledSequence = 2
    /\ shown = leds
    /\ \E k \in Leds : leds[k] # Black

\* C9: for each sequence, Init after any number of prior ticks followed by one
\* Update yields the same frame and the same private state as Init followed
\* by one Update on a freshly constructed instance at startup.
FreshMachine(g) ==
    [ring |-> S_RingChase_new(g), twinkle |-> S_Twinkle_new,
     trace |-> S_TraceChase_new, leds |-> [k \in Leds |-> Black],
     shown |-> [k \in Leds |-> Black], calls |-> <<>>, pulsed |-> FALSE,
     ringWrites |-> <<>>, painted |-> <<>>]

FreshFirstUpdate(i, g, rnd) == CallUpdate(CallInit(FreshMachine(g), i), i, rnd)

C9_InitRoundTrip ==
    Ticked /\ Made("Init")
       => \E g \in OutOfBoundsCHSV : \E rnd \in TwinkleDraws :
             LET f == FreshFirstUpdate(ledSequence, g, rnd)
             IN  /\ leds = f.leds
                 /\ ledSequence = 0 => ring = f.ring
                 /\ ledSequence = 1 => twinkle = f.twinkle
                 /\ ledSequence = 2 => trace = f.trace

\* C10: if a pulse starts in RingChase Update t, ring k is assigned that
\* pulse's palette colour in Update t + k * S_RING_CHASE_RING_SHIFT_FREQUENCY,
\* in increasing ring order, so that after exactly
\* S_RING_CHASE_RING_SHIFT_FREQUENCY * (NUM_STRIPS - 1) Updates following the
\* pulse start every ring has received the pulse colour.
PulseColor == PaletteAt(S_RING_CHASE_COLORS, ring.pulseColorIndex)

C10_PulsePropagation ==
    Ticked /\ ledSequence = 0 /\ pulseAge >= 0
       => /\ ringWrites =
                IF /\ pulseAge % S_RING_CHASE_RING_SHIFT_FREQUENCY = 0
                   /\ pulseAge \div S_RING_CHASE_RING_SHIFT_FREQUENCY < NUM_STRIPS
                THEN <<pulseAge \div S_RING_CHASE_RING_SHIFT_FREQUENCY>>
                ELSE <<>>
          /\ \A k \in Strips :
                k * S_RING_CHASE_RING_SHIFT_FREQUENCY <= pulseAge
                   => /\ ring.rings[k].h = PulseColor.h
                      /\ ring.rings[k].s = PulseColor.s
          /\ \A k \in Strips :
                k * S_RING_CHASE_RING_SHIFT_FREQUENCY = pulseAge
                   => ring.rings[k].v = PulseColor.v - S_RING_CHASE_FALLOF_RATE

\* the last ring receives the colour of a pulse that is not the first one
C10_Witness ==
    /\ Ticked
    /\ ledSequence = 0
    /\ pulseAge = S_RING_CHASE_RING_SHIFT_FREQUENCY * (NUM_STRIPS - 1)
    /\ ringWrites = <<NUM_STRIPS - 1>>
    /\ ring.pulseColorIndex = 1

\* C11: a RingChase pulse starts in the first Update after Init and then
\* every S_RING_CHASE_PULSE_FREQUENCY Updates; the j-th pulse after Init uses
\* palette index (j - 1) mod S_RING_CHASE_NUM_PULSE_COLORS, the first one
\* index 0.
PulseStarted == \E n \in 1..Len(ringWrites) : ringWrites[n] = 0

C11_PaletteCycle ==
    Ticked /\ ledSequence = 0
       => LET u == cyc.updates
              j == ((u - 1) \div S_RING_CHASE_PULSE_FREQUENCY) + 1
              c == (j - 1) % S_RING_CHASE_NUM_PULSE_COLORS
          IN  /\ PulseStarted <=> (u - 1) % S_RING_CHASE_PULSE_FREQUENCY = 0
              /\ pulseAge = (u - 1) % S_RING_CHASE_PULSE_FREQUENCY
              /\ ring.pulseColorIndex = c
              /\ PulseStarted
                    => /\ ring.rings[0].h = PaletteAt(S_RING_CHASE_COLORS, c).h
                       /\ ring.rings[0].s = PaletteAt(S_RING_CHASE_COLORS, c).s
              /\ u = 1 => PulseStarted /\ ring.pulseColorIndex = 0

\* the fourth pulse of an activation that follows a rotation: the palette
\* has wrapped around to index 0
C11_Witness ==
    /\ Ticked
    /\ ledSequence = 0
    /\ prev # NoCycle
    /\ cyc.updates = 1 + S_RING_CHASE_NUM_PULSE_COLORS * S_RING_CHASE_PULSE_FREQUENCY
    /\ PulseStarted
    /\ ring.pulseColorIndex = 0

\* C12: after k Updates following Init the trace of strip i is at
\* (start_i + k * S_TRACE_SPEED) mod NUM_STRIP_LEDS on even strips (all strips
\* without zig-zag) and at (start_i - k * S_TRACE_SPEED) mod NUM_STRIP_LEDS on
\* odd strips under zig-zag; the positions repeat every NUM_STRIP_LEDS
\* Updates.
TracePosition(i, k) ==
    IF ZIG_ZAG = 1 /\ i % 2 = 1
    THEN (TraceStart(i) + k * NUM_STRIP_LEDS - k * S_TRACE_SPEED) % NUM_STRIP_LEDS
    ELSE (TraceStart(i) + k * S_TRACE_SPEED) % NUM_STRIP_LEDS

C12_TracePosition ==
    Ticked /\ ledSequence = 2
       => \A i \in Strips :
             /\ trace.traces[i] = TracePosition(i, cyc.updates)
             /\ cyc.updates % NUM_STRIP_LEDS = 0
                   => trace.traces[i] = TraceStart(i)

\* one full period after Init: every trace has wrapped around and is back
\* at its start
C12_Witness ==
    /\ Ticked
    /\ ledSequence = 2
    /\ cyc.updates = NUM_STRIP_LEDS
    /\ trace.traces[1] = NUM_STRIP_LEDS - S_TRACE_OFFSET
    /\ trace.traces[2] = 2 * S_TRACE_OFFSET

\* C13 as amended: in every TraceChase Update the leds painted on strip i use
\* palette index i mod S_TRACE_CHASE_NUM_COLORS (strip 0 uses index 0), the
\* same index for that strip in every Update, and the object's palette index
\* is back at 0 when the Update returns.
PaintedStrip(w) == w.at \div NUM_STRIP_LEDS

C13_ColourPerStrip ==
    Ticked /\ ledSequence = 2
       => /\ \A n \in 1..Len(painted) :
                /\ painted[n].color = PaintedStrip(painted[n]) % S_TRACE_CHASE_NUM_COLORS
                /\ leds[painted[n].at] =
                      nscale8(hsv2rgb_rainbow(PaletteAt(S_TRACE_CHASE_COLORS,
                                  PaintedStrip(painted[n]) % S_TRACE_CHASE_NUM_COLORS)),
                              255 - S_TRACE_FALLOFF_RATE)
          /\ {PaintedStrip(painted[n]) : n \in 1..Len(painted)} = Strips
          /\ trace.traceColorIndex = 0

\* strips 1 and 2 are painted with palette entries 1 and 2
C13_Witness ==
    /\ Ticked
    /\ ledSequence = 2
    /\ \E n \in 1..Len(painted) :
          PaintedStrip(painted[n]) = 1 /\ painted[n].color = 1
    /\ \E n \in 1..Len(painted) :
          PaintedStrip(painted[n]) = 2 /\ painted[n].color = 2

\* C13: in every TraceChase Update the leds painted on every strip use the
\* same palette index, the one of strip 0 (index 0).
C13_SingleColour ==
    Ticked /\ ledSequence = 2
       => \A n \in 1..Len(painted) : painted[n].color = 0

\* C14: starting from a zeroed buffer, over any number of Twinkle Updates
\* the position Twinkle writes is never index 0 and never the last index
\* NUM_STRIPS * NUM_STRIP_LEDS - 1, and those two leds stay dark.
TwinkleUpdated == Args(calls, "Update") = {1}

C14_BoundaryExclusion ==
    /\ TwinkleUpdated
          => \A n \in 1..Len(painted) :
                /\ painted[n].at # 0
                /\ painted[n].at # NUM_STRIPS * NUM_STRIP_LEDS - 1
    /\ pc = "twinkle"
          => /\ leds[0] = Black
             /\ leds[NUM_STRIPS * NUM_STRIP_LEDS - 1] = Black

\* both ends of the position range have been lit
C14_Witness ==
    /\ pc = "twinkle"
    /\ TwinkleUpdated
    /\ leds[Min(TwinklePosRange)] # Black
    /\ leds[Max(TwinklePosRange)] # Black
    /\ \E n \in 1..Len(painted) : painted[n].at = 1

\* C15: every brightness Twinkle draws for a newly lit led lies in
\* [255 - S_TWINKLE_BRIGHTNESS_VARIANCE, 255], so it fits an 8-bit channel
\* without wrap-around.
C15_BrightnessBand ==
    TwinkleUpdated
       => \A n \in 1..Len(painted) :
             /\ painted[n].v >= 255 - S_TWINKLE_BRIGHTNESS_VARIANCE
             /\ painted[n].v <= 255
             /\ painted[n].v % 256 = painted[n].v

\* the lowest brightness of the band is drawn
C15_Witness ==
    /\ pc = "twinkle"
    /\ TwinkleUpdated
    /\ \E n \in 1..Len(painted) :
          painted[n].v = 255 - S_TWINKLE_BRIGHTNESS_VARIANCE
    /\ tick >= 3

\* C16: every RingChase Update lowers each ring's brightness by exactly
\* S_RING_CHASE_FALLOF_RATE, clamped at 0; a ring's brightness is always in
\* [0, 255] and increases only in an Update that assigns the ring a pulse
\* colour.
RingAssigned(writes, i) == \E n \in 1..Len(writes) : writes[n] = i

C16_SaturatingFalloff ==
    /\ [](\A i \in Strips : ring.rings[i].v \in 0..255)
    /\ [][pc = "loop" =>
             \A i \in Strips :
                LET old == ring.rings[i].v
                    new == ring'.rings[i].v
                IN  IF ledSequence' # 0 THEN new = old
                    ELSE IF RingAssigned(ringWrites', i)
                    THEN new = PaletteAt(S_RING_CHASE_COLORS,
                                         ring'.pulseColorIndex).v
                               - S_RING_CHASE_FALLOF_RATE
                    ELSE /\ new <= old
                         /\ old >= S_RING_CHASE_FALLOF_RATE
                               => new = old - S_RING_CHASE_FALLOF_RATE
                         /\ old < S_RING_CHASE_FALLOF_RATE => new = 0]_vars

\* ring 0 held 7 and is clamped to 0, 31 Updates after its pulse
C16_Witness ==
    /\ Ticked
    /\ ledSequence = 0
    /\ pulseAge = 31
    /\ ring.rings[0].v = 0
    /\ ring.rings[1].v > 0

\* C17: in every Twinkle and TraceChase Update each channel of every led
\* that the Update does not paint ends with a value in [0, 255] that is not
\* above its value before the Update: the old value scaled by
\* (255 - falloff) / 256, to within the one unit of the library's rounding.
DecayFalloff(i) == IF i = 1 THEN S_TWINKLE_FALLOFF_RATE ELSE S_TRACE_FALLOFF_RATE

C17_DecayNeverIncreases ==
    [][pc = "loop" /\ ledSequence' \in {1, 2} =>
          LET f == DecayFalloff(ledSequence')
              at == {painted'[n].at : n \in 1..Len(painted')}
          IN  \A k \in Leds \ at : \A c \in 1..3 :
                 LET old == leds[k][c]
                     new == leds'[k][c]
                 IN  /\ new \in 0..255
                     /\ new <= old
                     /\ new >= (old * (255 - f)) \div 256
                     /\ new <= (old * (255 - f)) \div 256 + 1]_vars

\* the led TraceChase painted first on strip 0 has decayed once, unpainted
C17_Witness ==
    /\ Ticked
    /\ ledSequence = 2
    /\ cyc.updates = 2
    /\ \A n \in 1..Len(painted) : painted[n].at # GetStrip(0) + 1
    /\ leds[GetStrip(0) + 1] =
          nscale8(nscale8(hsv2rgb_rainbow(PaletteAt(S_TRACE_CHASE_COLORS, 0)),
                          255 - S_TRACE_FALLOFF_RATE),
                  255 - S_TRACE_FALLOFF_RATE)
    /\ leds[GetStrip(0) + 1] # Black

\* C18: WrapUp of every sequence leaves the colour buffer unchanged; for
\* Twinkle and TraceChase it leaves all private state unchanged, for
\* RingChase it changes only the pulse timer.
C18_WrapUpFrame ==
    pc = "loop"
       => /\ \A i \in 0 .. (NUM_SEQUENCES - 1) :
                LET m == CallWrapUp(Machine, i)
                IN  /\ m.leds = leds
                    /\ m.shown = shown
                    /\ m.twinkle = twinkle
                    /\ m.trace = trace
                    /\ i # 0 => m.ring = ring
                    /\ i = 0 => /\ m.ring = [ring EXCEPT !.pulseTimer = m.ring.pulseTimer]
                                /\ m.ring.pulseTimer = WRAPUP_PULSE_TIMER
          /\ Ticked /\ Made("WrapUp") /\ ledSequence = 0
                => ring.pulseTimer = WRAPUP_PULSE_TIMER - 1

\* the tick in which RingChase was wrapped up, rings still lit
C18_Witness ==
    /\ Ticked
    /\ Made("WrapUp")
    /\ ledSequence = 0
    /\ ring.pulseTimer = WRAPUP_PULSE_TIMER - 1
    /\ ring.pulseRingIndex < NUM_STRIPS
    /\ \E k \in Leds : leds[k] # Black

\* C19: after WrapUp has been invoked on RingChase, in every RingChase
\* Update up to the next Init of RingChase no pulse starts: the palette index
\* does not advance and ring 0 is not assigned a pulse colour, while a
\* propagation in progress may still reach later rings.
C19_NoPulseAfterWrapUp ==
    /\ [](Ticked /\ ledSequence = 0 /\ cyc.wrapUps = 1
             => /\ ~PulseStarted
                /\ ~RingAssigned(ringWrites, 0)
                /\ ring.pulseTimer > sequenceTimer)
    /\ [][pc = "loop" /\ ledSequence = 0 /\ ledSequence' = 0 /\ cyc'.wrapUps = 1
             => /\ ring'.pulseColorIndex = ring.pulseColorIndex
                /\ ring'.rings[0].h = ring.rings[0].h
                /\ ring'.rings[0].s = ring.rings[0].s
                /\ ring'.rings[0].v <= ring.rings[0].v]_vars

\* after the WrapUp the pulse in progress reaches the last ring
C19_Witness ==
    /\ Ticked
    /\ ledSequence = 0
    /\ cyc.wrapUps = 1
    /\ ~Made("WrapUp")
    /\ ringWrites = <<NUM_STRIPS - 1>>

\* C20: the scheduler has no terminal state: a rotation occurs again and
\* again, and every registered sequence is the active one and is updated
\* infinitely often.
C20_NoTerminalState ==
    /\ []<>(Ticked /\ Made("Init"))
    /\ \A i \in 0 .. (NUM_SEQUENCES - 1) :
          []<>(Ticked /\ ledSequence = i /\ Args(calls, "Update") = {i})

\* RingChase is active and updated again after all three sequences have run
C20_Witness ==
    /\ Ticked
    /\ ledSequence = 0
    /\ prev # NoCycle
    /\ ~Made("Init")
    /\ Args(calls, "Update") = {0}
    /\ cyc.updates = 2

\* C21: every index used to write the colour buffer lies in
\* [0, NUM_STRIPS * NUM_STRIP_LEDS), and at every TraceChase write the strip
\* position is in [0, NUM_STRIP_LEDS), in the first Update after Init and on
\* odd strips too.
PaintedBy(n) == (n - 1) \div S_TRACE_SPEED

C21_WritesInRange ==
    /\ DOMAIN leds = 0 .. (NUM_STRIPS * NUM_STRIP_LEDS - 1)
    /\ \A n \in 1..Len(painted) :
          painted[n].at >= 0 /\ painted[n].at < NUM_STRIPS * NUM_STRIP_LEDS
    /\ Ticked /\ ledSequence = 2
          => /\ Len(painted) = NUM_STRIPS * S_TRACE_SPEED
             /\ \A n \in 1..Len(painted) :
                   /\ painted[n].at - GetStrip(PaintedBy(n)) >= 0
                   /\ painted[n].at - GetStrip(PaintedBy(n)) < NUM_STRIP_LEDS
             /\ \A i \in Strips :
                   trace.traces[i] >= 0 /\ trace.traces[i] < NUM_STRIP_LEDS
    /\ Ticked /\ ledSequence = 0
          => \A i \in Strips : \A j \in 0 .. (NUM_STRIP_LEDS - 1) :
                GetStrip(i) + j >= 0 /\ GetStrip(i) + j < NUM_STRIPS * NUM_STRIP_LEDS

\* an odd strip wraps around from position 0 to NUM_STRIP_LEDS - 1, and the
\* last strip is painted
C21_Witness ==
    /\ Ticked
    /\ ledSequence = 2
    /\ trace.traces[1] = NUM_STRIP_LEDS - S_TRACE_SPEED
    /\ \E n \in 1..Len(painted) : painted[n].at = GetStrip(1) + NUM_STRIP_LEDS - 1
    /\ \E n \in 1..Len(painted) : painted[n].at >= GetStrip(NUM_STRIPS - 1)

\* C22: in every reachable state 0 <= ledSequence < NUM_SEQUENCES, and at
\* the end of every tick 0 <= sequenceTimer <= SEQUENCE_DURATION; the
\* countdown is below zero only inside a rotation tick.
C22_SchedulerInvariant ==
    /\ ledSequence >= 0 /\ ledSequence < NUM_SEQUENCES
    /\ sequenceTimer >= 0 /\ sequenceTimer <= SEQUENCE_DURATION
    /\ Ticked
          => /\ Decremented >= -1
             /\ Decremented < 0 <=> Made("Init")
             /\ Decremented < 0 => sequenceTimer = SEQUENCE_DURATION
             /\ Decremented >= 0 => sequenceTimer = Decremented

\* the countdown has reached 0 on the second sequence: the next tick rotates
C22_Witness ==
    /\ Ticked
    /\ sequenceTimer = 0
    /\ ledSequence = 1
    /\ Decremented = 0

\* C23: after every RingChase Update every led of strip i holds the colour
\* of rings[i]: leds[i * NUM_STRIP_LEDS + j] = rings[i] for all i and all
\* j < NUM_STRIP_LEDS, so the leds of one strip are identical and the whole
\* buffer is overwritten.
C23_RingFrame ==
    Ticked /\ ledSequence = 0
       => \A i \in Strips : \A j \in 0 .. (NUM_STRIP_LEDS - 1) :
             leds[i * NUM_STRIP_LEDS + j] = hsv2rgb_rainbow(ring.rings[i])

\* the first RingChase Update after TraceChase has been active: the traces
\* left in the buffer are gone, rings 0 and 1 differ
C23_Witness ==
    /\ Ticked
    /\ ledSequence = 0
    /\ Made("Init")
    /\ prev # NoCycle
    /\ leds[0] # Black
    /\ leds[NUM_STRIP_LEDS] # leds[0]

\* C24: every index p with 1 <= p <= NUM_STRIPS * NUM_STRIP_LEDS - 2 can be
\* chosen by some Twinkle Update; only index 0 and the last index cannot.
C24_AllInnerPositions ==
    pc = "twinkle" /\ TwinkleDue(twinkle)
       => TwinklePosRange = 1 .. (NUM_STRIPS * NUM_STRIP_LEDS - 2)

\* C25: Twinkle lights a led in exactly the Updates that find the timer
\* <= 0, which leave it at S_TWINKLE_FREQUENCY - 1; each of the following
\* S_TWINKLE_FREQUENCY - 1 Updates lights none and counts the timer down;
\* between Updates the timer is in [0, S_TWINKLE_FREQUENCY], across
\* rotations too, since Init leaves it alone.
C25_TwinkleFrequency ==
    /\ [](twinkle.twinkleTimer >= 0 /\ twinkle.twinkleTimer <= S_TWINKLE_FREQUENCY)
    /\ [][pc = "loop" =>
             IF ledSequence' # 1 THEN twinkle'.twinkleTimer = twinkle.twinkleTimer
             ELSE IF twinkle.twinkleTimer <= 0
             THEN /\ Len(painted') = 1
                  /\ twinkle'.twinkleTimer = S_TWINKLE_FREQUENCY - 1
             ELSE /\ painted' = <<>>
                  /\ twinkle'.twinkleTimer = twinkle.twinkleTimer - 1]_vars

\* Twinkle is activated a second time with the timer its first activation
\* left: the Update of the rotation tick lights nothing
C25_Witness ==
    /\ Ticked
    /\ ledSequence = 1
    /\ Made("Init")
    /\ painted = <<>>
    /\ twinkle.twinkleTimer = 0

\* C26: from construction onwards every index used to read a palette is
\* within it: S_RING_CHASE_COLORS is read at pulseColorIndex by the
\* constructor and by every Update that assigns a ring, S_TRACE_CHASE_COLORS
\* and S_TWINKLE_COLORS at the index of each led painted.
C26_PaletteReadsInBounds ==
    /\ pc = "setup"
          => ring.pulseColorIndex >= 0
             /\ ring.pulseColorIndex < S_RING_CHASE_NUM_PULSE_COLORS
    /\ Ticked /\ ledSequence = 0 /\ ringWrites # <<>>
          => ring.pulseColorIndex >= 0
             /\ ring.pulseColorIndex < S_RING_CHASE_NUM_PULSE_COLORS
    /\ Ticked /\ ledSequence = 1
          => \A n \in 1..Len(painted) :
                painted[n].color >= 0 /\ painted[n].color < S_TWINKLE_NUM_COLORS
    /\ Ticked /\ ledSequence = 2
          => \A n \in 1..Len(painted) :
                painted[n].color >= 0 /\ painted[n].color < S_TRACE_CHASE_NUM_COLORS

\* C27: in every TraceChase Update each strip paints exactly the
\* S_TRACE_SPEED consecutive positions (modulo NUM_STRIP_LEDS, in the strip's
\* direction) its trace passes in that Update, the last of them being its new
\* position, and no other led.
TraceStep(i, p, back) ==
    IF ZIG_ZAG = 1 /\ i % 2 = 1
    THEN (p + back) % NUM_STRIP_LEDS
    ELSE (p + NUM_STRIP_LEDS - back) % NUM_STRIP_LEDS

C27_PaintsEveryStep ==
    Ticked /\ ledSequence = 2
       => /\ Len(painted) = NUM_STRIPS * S_TRACE_SPEED
          /\ \A i \in Strips : \A j \in 1..S_TRACE_SPEED :
                painted[i * S_TRACE_SPEED + j].at =
                    GetStrip(i) + TraceStep(i, trace.traces[i], S_TRACE_SPEED - j)
          /\ \A i \in Strips :
                Cardinality({n \in 1..Len(painted) :
                                painted[n].at \div NUM_STRIP_LEDS = i}) = S_TRACE_SPEED
          /\ \A n \in 1..Len(painted) : leds[painted[n].at] # Black

\* strip 0 passes 148, 149 and wraps to 0 within one Update
C27_Witness ==
    /\ Ticked
    /\ ledSequence = 2
    /\ trace.traces[0] = 0
    /\ painted[1].at = GetStrip(0) + NUM_STRIP_LEDS - 2
    /\ painted[2].at = GetStrip(0) + NUM_STRIP_LEDS - 1
    /\ painted[3].at = GetStrip(0)

=============================================================================
